---- MODULE Spec2Model ----
(***************************************************************************)
(* Model of the chat service of contoso-air                                *)
(* (src/web/services/chat.service.js): the in-memory conversation store,   *)
(* the request builder, the completion gateway, processMessage, and the    *)
(* POST /message route in front of it.                                     *)
(*                                                                         *)
(* JavaScript values are records: a missing property is a missing field,   *)
(* `undefined` is Undefined, `null` is Null.  Message text is a sequence   *)
(* of one-character strings so that trim() is computed, not assumed.       *)
(* Node runs one handler at a time: a processMessage call is two atomic    *)
(* steps, from entry to the `await` of the POST, and from the POST's       *)
(* outcome to the return.                                                  *)
(***************************************************************************)
EXTENDS Integers, Sequences, FiniteSets, TLC

VARIABLES
    maxHistoryMessages, \* config.chat.maxHistoryMessages (H)
    apiTimeout,         \* config.api.timeout, in milliseconds
    conversations,      \* ChatService.conversations: Map sessionId -> messages
    pc,                 \* per caller: "idle", or "awaiting" the POST of its call
    args,               \* per caller: the arguments of its call in flight
    requestPayload,     \* per caller: the payload its call built and posted
    posts,              \* per caller: POSTs issued by its call in flight
    started,            \* number of calls that reached the request builder
    returned,           \* the call that settled in the last step, Undefined if none did
    served,             \* the store request served in the last step, Undefined if none was
    promptArgs,         \* the arguments of the last buildSystemPrompt call made on its own
    systemMessage,      \* what that call returned
    appended,           \* history variable: per session, the messages appended since its last clear
    disturbed           \* history variable: per caller, another operation appended to or
                        \* cleared the session of its call since the call began

vars == <<maxHistoryMessages, apiTimeout, conversations, pc, args, requestPayload, posts,
          started, returned, served, promptArgs, systemMessage, appended, disturbed>>

-----------------------------------------------------------------------------
(* Bounds *)

MaxCalls == 2

-----------------------------------------------------------------------------
(* JavaScript values *)

Undefined == [kind |-> "undefined"]
Null == [kind |-> "null"]
EmptyObject == [f \in {} |-> 0]

Str(s) == [kind |-> "string", str |-> s]
Num(n) == [kind |-> "number", num |-> n]

Has(o, f) == f \in DOMAIN o

Min(a, b) == IF a <= b THEN a ELSE b

\* !v for the values used as arguments
Falsy(v) ==
    \/ v.kind = "undefined"
    \/ v.kind = "null"
    \/ v.kind = "string" /\ v.str = <<>>
    \/ v.kind = "number" /\ v.num = 0

Whitespace == {" ", "\t", "\n"}

RECURSIVE trimStart(_)
trimStart(s) ==
    IF s # <<>> /\ Head(s) \in Whitespace THEN trimStart(Tail(s)) ELSE s

RECURSIVE trimEnd(_)
trimEnd(s) ==
    IF s # <<>> /\ s[Len(s)] \in Whitespace
    THEN trimEnd(SubSeq(s, 1, Len(s) - 1))
    ELSE s

trim(s) == trimEnd(trimStart(s))

-----------------------------------------------------------------------------
(* Inputs *)

\* slots of the calls in flight; a new call takes the lowest free slot
Callers == {1, 2}

\* configured values of CHAT_MAX_HISTORY (zero and NaN fall back to 20)
HistoryLimits == {1, 2, 4}

S1 == <<"s", "1">>
S2 == <<"s", "2">>
SessionKeys == {S1, S2}

Hi == Str(<<"h", "i">>)
Bye == Str(<<" ", "b", "y", "e", "\n">>)

\* values of config.api.timeout: CHAT_API_TIMEOUT parsed, 30000 when unset
ApiTimeouts == {5000, 30000, 120000}

\* (userMessage, sessionId, options) triples that reach the request builder
ValidCallArgs ==
    { <<Hi, Str(S1), Undefined>>, <<Bye, Str(S1), Undefined>>,
      <<Bye, Str(S2), [includeHistory |-> FALSE]>> }

\* triples with a missing, empty, blank or non-string message, a missing or
\* empty session id, or null options
InvalidCallArgs ==
    { <<Undefined, Str(S1), Undefined>>, <<Str(<<>>), Undefined, Undefined>>,
      <<Str(<<" ", "\t">>), Str(S1), Undefined>>, <<Num(42), Str(S1), Undefined>>,
      <<Hi, Undefined, Undefined>>, <<Bye, Str(<<>>), Undefined>>,
      <<Hi, Str(S1), Null>>, <<Str(<<" ", "\n">>), Undefined, Undefined>> }

\* the triples processMessage is called with
CallArgs == ValidCallArgs \cup InvalidCallArgs

\* options objects: each recognized field missing or supplied
BuilderOptions ==
    {Undefined} \cup
    { t @@ m @@ c @@ i :
        t \in {EmptyObject, [temperature |-> "0.2"]},
        m \in {EmptyObject, [maxTokens |-> 100]},
        c \in {EmptyObject, [context |-> "booking"]},
        i \in {EmptyObject, [includeHistory |-> FALSE], [includeHistory |-> TRUE]} }

\* valid (userMessage, sessionId, options) triples over all those options
BuilderCallArgs ==
    { <<m, Str(S1), o>> : m \in {Hi, Bye}, o \in BuilderOptions }

\* context tags buildSystemPrompt is called with: the four templates, and
\* tags that name no template
Contexts ==
    {"travel", "booking", "support", "general", "nonexistent", "", "constructor", "__proto__"}

\* userInfo objects: each attribute missing, empty or given
UserInfos ==
    { n @@ l @@ p :
        n \in {EmptyObject, [name |-> ""], [name |-> "Ada"]},
        l \in {EmptyObject, [location |-> "Oslo"]},
        p \in {EmptyObject, [preferredLanguage |-> "en"], [preferredLanguage |-> "fr"]} }

\* a session id POST /message generates: session_<Date.now()>_<random suffix>
GeneratedIds == {<<"session_", "1">>}

\* req.body of POST /message: a message that is missing, empty, blank, a
\* number or a text; a session id that is missing, empty, null or s1; context
\* and userInfo missing or supplied
RouteBodies ==
    { m @@ s @@ o :
        m \in {EmptyObject, [message |-> Hi], [message |-> Str(<<>>)],
               [message |-> Str(<<" ">>)], [message |-> Num(42)]},
        s \in {EmptyObject, [sessionId |-> Str(S1)], [sessionId |-> Str(<<>>)],
               [sessionId |-> Null]},
        o \in {EmptyObject, [context |-> "booking", userInfo |-> [name |-> "Ada"]]} }

-----------------------------------------------------------------------------
(* Configuration (config/chat.config.js) *)

model == "gpt-3.5-turbo"

systemPrompts ==
    [ travel  |-> [content |-> "You are a helpful AI travel assistant for Contoso Air",
                   temperature |-> "0.7", maxTokens |-> 500],
      booking |-> [content |-> "You are a flight booking specialist for Contoso Air",
                   temperature |-> "0.6", maxTokens |-> 400],
      support |-> [content |-> "You are a customer support representative for Contoso Air",
                   temperature |-> "0.5", maxTokens |-> 450],
      general |-> [content |-> "You are a helpful AI assistant for Contoso Air's website",
                   temperature |-> "0.7", maxTokens |-> 400] ]

-----------------------------------------------------------------------------
(* Session store *)

getConversationHistory_AlwaysSet(conv, sessionId) ==
    [k \in DOMAIN conv \cup {sessionId} |-> IF k = sessionId THEN <<>> ELSE conv[k]]

\* the Map after getConversationHistory(sessionId); the returned array is
\* the entry of sessionId in it
getConversationHistory(conv, sessionId) ==
    IF sessionId \in DOMAIN conv THEN conv ELSE conv @@ (sessionId :> <<>>)

splice0_FromEnd(arr, deleteCount) ==
    IF deleteCount <= 0 THEN arr
    ELSE IF deleteCount >= Len(arr) THEN <<>>
    ELSE SubSeq(arr, 1, Len(arr) - deleteCount)

\* Array.prototype.splice(0, deleteCount): the array that is left
splice0(arr, deleteCount) ==
    IF deleteCount <= 0 THEN arr
    ELSE IF deleteCount >= Len(arr) THEN <<>>
    ELSE SubSeq(arr, deleteCount + 1, Len(arr))

addToConversation_KeepOldest(conv, sessionId, message) ==
    LET c1 == getConversationHistory(conv, sessionId)
        pushed == Append(c1[sessionId], message)
        maxMessages == maxHistoryMessages
    IN  [c1 EXCEPT ![sessionId] =
            IF Len(pushed) > maxMessages
            THEN SubSeq(pushed, 1, maxMessages)
            ELSE pushed]

addToConversation_OffByOne(conv, sessionId, message) ==
    LET c1 == getConversationHistory(conv, sessionId)
        pushed == Append(c1[sessionId], message)
        maxMessages == maxHistoryMessages
    IN  [c1 EXCEPT ![sessionId] =
            IF Len(pushed) > maxMessages + 1
            THEN splice0(pushed, Len(pushed) - maxMessages)
            ELSE pushed]

addToConversation_EvictAtLimit(conv, sessionId, message) ==
    LET c1 == getConversationHistory(conv, sessionId)
        pushed == Append(c1[sessionId], message)
        maxMessages == maxHistoryMessages
    IN  [c1 EXCEPT ![sessionId] =
            IF Len(pushed) >= maxMessages
            THEN splice0(pushed, Len(pushed) - maxMessages + 1)
            ELSE pushed]

addToConversation_SharedArray(conv, sessionId, message) ==
    LET c1 == getConversationHistory(conv, sessionId)
        maxMessages == maxHistoryMessages
    IN  [k \in DOMAIN c1 |->
            LET pushed == Append(c1[k], message)
            IN  IF Len(pushed) > maxMessages
                THEN splice0(pushed, Len(pushed) - maxMessages)
                ELSE pushed]

\* the Map after addToConversation(sessionId, message)
addToConversation(conv, sessionId, message) ==
    LET c1 == getConversationHistory(conv, sessionId)
        pushed == Append(c1[sessionId], message)
        maxMessages == maxHistoryMessages
    IN  [c1 EXCEPT ![sessionId] =
            IF Len(pushed) > maxMessages
            THEN splice0(pushed, Len(pushed) - maxMessages)
            ELSE pushed]

clearConversation_WrongKey(conv, sessionId) ==
    [k \in DOMAIN conv \ {<<"session_">> \o sessionId} |-> conv[k]]

clearConversation_ClearAll(conv, sessionId) == [k \in {} |-> <<>>]

\* the Map after clearConversation(sessionId)
clearConversation(conv, sessionId) ==
    [k \in DOMAIN conv \ {sessionId} |-> conv[k]]

\* the number of elements of arr whose role is r
RECURSIVE countRole(_, _)
countRole(arr, r) ==
    IF arr = <<>> THEN 0
    ELSE (IF Has(Head(arr), "role") /\ Head(arr).role = r THEN 1 ELSE 0)
            + countRole(Tail(arr), r)

getConversationStats_TotalIsSum(conv, sessionId) ==
    LET history == getConversationHistory(conv, sessionId)[sessionId]
    IN  [totalMessages |-> countRole(history, "user") + countRole(history, "assistant"),
         userMessages |-> countRole(history, "user"),
         assistantMessages |-> countRole(history, "assistant"),
         sessionId |-> sessionId]

\* what getConversationStats(sessionId) returns
getConversationStats(conv, sessionId) ==
    LET history == getConversationHistory(conv, sessionId)[sessionId]
    IN  [totalMessages |-> Len(history),
         userMessages |-> countRole(history, "user"),
         assistantMessages |-> countRole(history, "assistant"),
         sessionId |-> sessionId]

\* what getConversationHistory(sessionId) would return, without the call
History(sessionId) ==
    IF sessionId \in DOMAIN conversations THEN conversations[sessionId] ELSE <<>>

-----------------------------------------------------------------------------
(* Prompt composer and request builder *)

\* a property of an object, or the default of a destructuring / parameter
Opt(o, f, default) == IF Has(o, f) THEN o[f] ELSE default

\* names every plain object inherits from Object.prototype: a lookup
\* systemPrompts[name] finds them although systemPrompts does not define them
ObjectPrototypeKeys == {"constructor", "toString", "valueOf", "hasOwnProperty", "__proto__"}

\* what such a lookup yields: a function or object, truthy, without content
ObjectPrototypeMember == [kind |-> "inherited"]

\* systemContent += piece; an undefined systemContent is stringified first
PlusAssign(systemContent, piece) ==
    IF systemContent.kind = "undefined"
    THEN Str(<<"undefined">> \o piece)
    ELSE Str(systemContent.str \o piece)

\* buildSystemPrompt(context, userInfo); an undefined content is a missing
\* field of the message
buildSystemPrompt(context, userInfo) ==
    LET promptConfig == IF context \in DOMAIN systemPrompts
                        THEN systemPrompts[context]
                        ELSE IF context \in ObjectPrototypeKeys
                        THEN ObjectPrototypeMember
                        ELSE systemPrompts.general
        c0 == IF Has(promptConfig, "content")
              THEN Str(<<promptConfig.content>>)
              ELSE Undefined
        c1 == IF Has(userInfo, "name") /\ userInfo.name # ""
              THEN PlusAssign(c0, <<"\n\nThe customer's name is ", userInfo.name, ".">>)
              ELSE c0
        c2 == IF Has(userInfo, "location") /\ userInfo.location # ""
              THEN PlusAssign(c1, <<"\nThe customer is located in ", userInfo.location, ".">>)
              ELSE c1
        c3 == IF /\ Has(userInfo, "preferredLanguage")
                 /\ userInfo.preferredLanguage # ""
                 /\ userInfo.preferredLanguage # "en"
              THEN PlusAssign(c2, <<"\nPlease respond in ", userInfo.preferredLanguage,
                                   " if the customer writes in that language.">>)
              ELSE c2
    IN  IF c3.kind = "undefined"
        THEN [role |-> "system"]
        ELSE [role |-> "system", content |-> c3.str]

createChatRequestThrows_Never(options) == FALSE

\* destructuring `options` throws a TypeError when it is null
createChatRequestThrows(options) == options = Null

userMsgOf_Untrimmed(userMessage) == [role |-> "user", content |-> userMessage.str]

\* the user message createChatRequest builds
userMsgOf(userMessage) == [role |-> "user", content |-> trim(userMessage.str)]

createChatRequest_AppendFirst(conv, userMessage, sessionId, options) ==
    LET o == IF options = Undefined THEN EmptyObject ELSE options
        includeHistory == Opt(o, "includeHistory", TRUE)
        m0 == <<buildSystemPrompt(Opt(o, "context", "travel"), Opt(o, "userInfo", EmptyObject))>>
        userMsg == userMsgOf(userMessage)
        conv1 == addToConversation(conv, sessionId, userMsg)
        m1 == IF includeHistory THEN m0 \o conv1[sessionId] ELSE Append(m0, userMsg)
    IN  [ payload |-> [ model |-> model,
                        messages |-> m1,
                        temperature |-> Opt(o, "temperature", "0.7"),
                        max_tokens |-> Opt(o, "maxTokens", 500),
                        top_p |-> 1,
                        frequency_penalty |-> 0,
                        presence_penalty |-> 0 ],
          conversations |-> conv1 ]

createChatRequest_StoresRawText(conv, userMessage, sessionId, options) ==
    LET o == IF options = Undefined THEN EmptyObject ELSE options
        includeHistory == Opt(o, "includeHistory", TRUE)
        m0 == <<buildSystemPrompt(Opt(o, "context", "travel"), Opt(o, "userInfo", EmptyObject))>>
        conv1 == IF includeHistory THEN getConversationHistory(conv, sessionId) ELSE conv
        m1 == IF includeHistory THEN m0 \o conv1[sessionId] ELSE m0
    IN  [ payload |-> [ model |-> model,
                        messages |-> Append(m1, userMsgOf(userMessage)),
                        temperature |-> Opt(o, "temperature", "0.7"),
                        max_tokens |-> Opt(o, "maxTokens", 500),
                        top_p |-> 1,
                        frequency_penalty |-> 0,
                        presence_penalty |-> 0 ],
          conversations |-> addToConversation(conv1, sessionId,
                                [role |-> "user", content |-> userMessage.str]) ]

createChatRequest_AppendWithHistoryOnly(conv, userMessage, sessionId, options) ==
    LET o == IF options = Undefined THEN EmptyObject ELSE options
        includeHistory == Opt(o, "includeHistory", TRUE)
        m0 == <<buildSystemPrompt(Opt(o, "context", "travel"), Opt(o, "userInfo", EmptyObject))>>
        conv1 == IF includeHistory THEN getConversationHistory(conv, sessionId) ELSE conv
        m1 == IF includeHistory THEN m0 \o conv1[sessionId] ELSE m0
        userMsg == userMsgOf(userMessage)
    IN  [ payload |-> [ model |-> model,
                        messages |-> Append(m1, userMsg),
                        temperature |-> Opt(o, "temperature", "0.7"),
                        max_tokens |-> Opt(o, "maxTokens", 500),
                        top_p |-> 1,
                        frequency_penalty |-> 0,
                        presence_penalty |-> 0 ],
          conversations |-> IF includeHistory
                            THEN addToConversation(conv1, sessionId, userMsg)
                            ELSE getConversationHistory(conv1, sessionId) ]

createChatRequest_TemplateDefaults(conv, userMessage, sessionId, options) ==
    LET o == IF options = Undefined THEN EmptyObject ELSE options
        context == Opt(o, "context", "travel")
        promptConfig == IF context \in DOMAIN systemPrompts
                        THEN systemPrompts[context]
                        ELSE systemPrompts.general
        includeHistory == Opt(o, "includeHistory", TRUE)
        m0 == <<buildSystemPrompt(context, Opt(o, "userInfo", EmptyObject))>>
        conv1 == IF includeHistory THEN getConversationHistory(conv, sessionId) ELSE conv
        m1 == IF includeHistory THEN m0 \o conv1[sessionId] ELSE m0
        userMsg == userMsgOf(userMessage)
    IN  [ payload |-> [ model |-> model,
                        messages |-> Append(m1, userMsg),
                        temperature |-> Opt(o, "temperature", promptConfig.temperature),
                        max_tokens |-> Opt(o, "maxTokens", promptConfig.maxTokens),
                        top_p |-> 1,
                        frequency_penalty |-> 0,
                        presence_penalty |-> 0 ],
          conversations |-> addToConversation(conv1, sessionId, userMsg) ]

createChatRequest_NoAppend(conv, userMessage, sessionId, options) ==
    LET o == IF options = Undefined THEN EmptyObject ELSE options
        includeHistory == Opt(o, "includeHistory", TRUE)
        m0 == <<buildSystemPrompt(Opt(o, "context", "travel"), Opt(o, "userInfo", EmptyObject))>>
        conv1 == getConversationHistory(conv, sessionId)
        m1 == IF includeHistory THEN m0 \o conv1[sessionId] ELSE m0
    IN  [ payload |-> [ model |-> model,
                        messages |-> Append(m1, userMsgOf(userMessage)),
                        temperature |-> Opt(o, "temperature", "0.7"),
                        max_tokens |-> Opt(o, "maxTokens", 500),
                        top_p |-> 1,
                        frequency_penalty |-> 0,
                        presence_penalty |-> 0 ],
          conversations |-> conv1 ]

\* createChatRequest(userMessage, sessionId, options): the payload it returns
\* and the Map it leaves
createChatRequest(conv, userMessage, sessionId, options) ==
    LET o == IF options = Undefined THEN EmptyObject ELSE options
        context == Opt(o, "context", "travel")
        userInfo == Opt(o, "userInfo", EmptyObject)
        temperature == Opt(o, "temperature", "0.7")
        maxTokens == Opt(o, "maxTokens", 500)
        includeHistory == Opt(o, "includeHistory", TRUE)
        m0 == <<buildSystemPrompt(context, userInfo)>>
        conv1 == IF includeHistory
                 THEN getConversationHistory(conv, sessionId)
                 ELSE conv
        m1 == IF includeHistory THEN m0 \o conv1[sessionId] ELSE m0
        userMsg == userMsgOf(userMessage)
        messages == Append(m1, userMsg)
    IN  [ payload |-> [ model |-> model,
                        messages |-> messages,
                        temperature |-> temperature,
                        max_tokens |-> maxTokens,
                        top_p |-> 1,
                        frequency_penalty |-> 0,
                        presence_penalty |-> 0 ],
          conversations |-> addToConversation(conv1, sessionId, userMsg) ]

-----------------------------------------------------------------------------
(* Completion gateway *)

WellFormedReply == [role |-> "assistant", content |-> <<"h", "e", "l", "l", "o">>]

\* choices[0].message values the endpoint may send
ReplyMessages ==
    { WellFormedReply, [role |-> "system"] }

Body(choices) ==
    [choices |-> choices, usage |-> [total_tokens |-> 12], model |-> "gpt-3.5-turbo-0125"]

\* response.data values of a 2xx response
ResponseBodies ==
    {Body(<<[message |-> m]>>) : m \in ReplyMessages}
        \cup { Body(<<>>), Null }

\* what axios.post settles with: a 2xx response, or an error that carries a
\* response (non-2xx status), a request only (no response: DNS, connection,
\* timeout), or neither (the request could not be set up)
AxiosOutcomes ==
    {[resolved |-> TRUE, data |-> d] : d \in ResponseBodies}
        \cup { [resolved |-> FALSE,
                error |-> [message |-> "Request failed with status code 500",
                           response |-> [status |-> "500",
                                         statusText |-> "Internal Server Error",
                                         data |-> [error |-> "overloaded"]],
                           request |-> TRUE]],
               [resolved |-> FALSE,
                error |-> [message |-> "timeout of 30000ms exceeded", request |-> TRUE]],
               [resolved |-> FALSE,
                error |-> [message |-> "Invalid URL"]] }

sendChatRequest_RequestFirst(ax) ==
    IF ax.resolved
    THEN [success |-> TRUE, data |-> ax.data]
    ELSE IF Has(ax.error, "request")
    THEN [success |-> FALSE,
          error |-> <<"Network error: Unable to reach chat API service">>]
    ELSE IF Has(ax.error, "response")
    THEN [success |-> FALSE,
          error |-> <<"API Error: ", ax.error.response.status, " - ",
                      ax.error.response.statusText>>,
          details |-> ax.error.response.data]
    ELSE [success |-> FALSE,
          error |-> <<"Request error: ", ax.error.message>>]

\* the timeout option sendChatRequest passes to axios.post
axiosTimeout == 30000

\* sendChatRequest(requestPayload), given what axios.post settled with
sendChatRequest(ax) ==
    IF ax.resolved
    THEN [success |-> TRUE, data |-> ax.data]
    ELSE IF Has(ax.error, "response")
    THEN [success |-> FALSE,
          error |-> <<"API Error: ", ax.error.response.status, " - ",
                      ax.error.response.statusText>>,
          details |-> ax.error.response.data]
    ELSE IF Has(ax.error, "request")
    THEN [success |-> FALSE,
          error |-> <<"Network error: Unable to reach chat API service">>]
    ELSE [success |-> FALSE,
          error |-> <<"Request error: ", ax.error.message>>]

-----------------------------------------------------------------------------
(* processMessage *)

\* `!userMessage || !userMessage.trim()` throws a TypeError for a truthy
\* value that has no trim method
ValidationThrows(userMessage) ==
    ~Falsy(userMessage) /\ userMessage.kind # "string"

EmptyMessage_NoTrim(userMessage) ==
    Falsy(userMessage) \/ userMessage.str = <<>>

\* `!userMessage || !userMessage.trim()`
EmptyMessage(userMessage) ==
    Falsy(userMessage) \/ trim(userMessage.str) = <<>>

\* response.data.choices?.[0]?.message
firstChoiceMessage(data) ==
    IF ~Has(data, "choices") THEN Undefined
    ELSE IF Len(data.choices) = 0 THEN Undefined
    ELSE IF ~Has(data.choices[1], "message") THEN Undefined
    ELSE data.choices[1].message

processMessageEntry_SessionFirst(conv, userMessage, sessionId, options) ==
    IF Falsy(sessionId)
    THEN [pc |-> "returned", conversations |-> conv,
          result |-> [success |-> FALSE, error |-> <<"Session ID is required">>]]
    ELSE IF ValidationThrows(userMessage)
    THEN [pc |-> "rejected", conversations |-> conv]
    ELSE IF EmptyMessage(userMessage)
    THEN [pc |-> "returned", conversations |-> conv,
          result |-> [success |-> FALSE, error |-> <<"Message cannot be empty">>]]
    ELSE IF createChatRequestThrows(options)
    THEN [pc |-> "returned", conversations |-> conv,
          result |-> [success |-> FALSE, error |-> <<"Failed to process chat message">>]]
    ELSE LET r == createChatRequest(conv, userMessage, sessionId.str, options)
         IN  [pc |-> "awaiting", conversations |-> r.conversations,
              requestPayload |-> r.payload]

processMessageEntry_SessionCheckLate(conv, userMessage, sessionId, options) ==
    IF ValidationThrows(userMessage)
    THEN [pc |-> "rejected", conversations |-> conv]
    ELSE IF EmptyMessage(userMessage)
    THEN [pc |-> "returned", conversations |-> conv,
          result |-> [success |-> FALSE, error |-> <<"Message cannot be empty">>]]
    ELSE IF createChatRequestThrows(options)
    THEN [pc |-> "returned", conversations |-> conv,
          result |-> [success |-> FALSE, error |-> <<"Failed to process chat message">>]]
    ELSE LET r == createChatRequest(conv, userMessage, Opt(sessionId, "str", <<>>), options)
         IN  IF Falsy(sessionId)
             THEN [pc |-> "returned", conversations |-> r.conversations,
                   result |-> [success |-> FALSE, error |-> <<"Session ID is required">>]]
             ELSE [pc |-> "awaiting", conversations |-> r.conversations,
                   requestPayload |-> r.payload]

\* processMessage from its entry to the await of the POST
processMessageEntry(conv, userMessage, sessionId, options) ==
    IF ValidationThrows(userMessage)
    THEN [pc |-> "rejected", conversations |-> conv]
    ELSE IF EmptyMessage(userMessage)
    THEN [pc |-> "returned", conversations |-> conv,
          result |-> [success |-> FALSE, error |-> <<"Message cannot be empty">>]]
    ELSE IF Falsy(sessionId)
    THEN [pc |-> "returned", conversations |-> conv,
          result |-> [success |-> FALSE, error |-> <<"Session ID is required">>]]
    ELSE IF createChatRequestThrows(options)
    THEN [pc |-> "returned", conversations |-> conv,
          result |-> [success |-> FALSE, error |-> <<"Failed to process chat message">>]]
    ELSE LET r == createChatRequest(conv, userMessage, sessionId.str, options)
         IN  [pc |-> "awaiting", conversations |-> r.conversations,
              requestPayload |-> r.payload]

processMessageResume_Rollback(conv, sessionId, ax) ==
    LET response == sendChatRequest(ax)
        conv0 == getConversationHistory(conv, sessionId.str)
        popped == [conv0 EXCEPT ![sessionId.str] =
                      IF @ = <<>> THEN @ ELSE SubSeq(@, 1, Len(@) - 1)]
    IN  IF ~response.success
        THEN [conversations |-> popped, result |-> response]
        ELSE IF response.data = Null
        THEN [conversations |-> popped,
              result |-> [success |-> FALSE, error |-> <<"Failed to process chat message">>]]
        ELSE LET assistantMessage == firstChoiceMessage(response.data)
             IN  IF assistantMessage = Undefined
                 THEN [conversations |-> popped,
                       result |-> [success |-> FALSE,
                                   error |-> <<"Invalid response format from chat API">>]]
                 ELSE LET conv1 == addToConversation(conv, sessionId.str, assistantMessage)
                          conv2 == getConversationHistory(conv1, sessionId.str)
                      IN  [conversations |-> conv2,
                           result |-> [success |-> TRUE,
                                       message |-> Opt(assistantMessage, "content", Undefined),
                                       usage |-> Opt(response.data, "usage", Undefined),
                                       model |-> Opt(response.data, "model", Undefined),
                                       conversationLength |-> Len(conv2[sessionId.str])]]

processMessageResume_LengthBeforeAppend(conv, sessionId, ax) ==
    LET response == sendChatRequest(ax)
    IN  IF ~response.success
        THEN [conversations |-> conv, result |-> response]
        ELSE IF response.data = Null
        THEN [conversations |-> conv,
              result |-> [success |-> FALSE, error |-> <<"Failed to process chat message">>]]
        ELSE LET assistantMessage == firstChoiceMessage(response.data)
             IN  IF assistantMessage = Undefined
                 THEN [conversations |-> conv,
                       result |-> [success |-> FALSE,
                                   error |-> <<"Invalid response format from chat API">>]]
                 ELSE LET conv0 == getConversationHistory(conv, sessionId.str)
                          conv1 == addToConversation(conv0, sessionId.str, assistantMessage)
                      IN  [conversations |-> conv1,
                           result |-> [success |-> TRUE,
                                       message |-> Opt(assistantMessage, "content", Undefined),
                                       usage |-> Opt(response.data, "usage", Undefined),
                                       model |-> Opt(response.data, "model", Undefined),
                                       conversationLength |-> Len(conv0[sessionId.str])]]

processMessageResume_ReplyFirst(conv, sessionId, ax) ==
    LET response == sendChatRequest(ax)
    IN  IF ~response.success
        THEN [conversations |-> conv, result |-> response]
        ELSE IF response.data = Null
        THEN [conversations |-> conv,
              result |-> [success |-> FALSE, error |-> <<"Failed to process chat message">>]]
        ELSE LET assistantMessage == firstChoiceMessage(response.data)
             IN  IF assistantMessage = Undefined
                 THEN [conversations |-> conv,
                       result |-> [success |-> FALSE,
                                   error |-> <<"Invalid response format from chat API">>]]
                 ELSE LET conv1 == getConversationHistory(conv, sessionId.str)
                          unshifted == <<assistantMessage>> \o conv1[sessionId.str]
                          conv2 == [conv1 EXCEPT ![sessionId.str] =
                                        SubSeq(unshifted, 1, Min(Len(unshifted), maxHistoryMessages))]
                      IN  [conversations |-> conv2,
                           result |-> [success |-> TRUE,
                                       message |-> Opt(assistantMessage, "content", Undefined),
                                       usage |-> Opt(response.data, "usage", Undefined),
                                       model |-> Opt(response.data, "model", Undefined),
                                       conversationLength |-> Len(conv2[sessionId.str])]]

\* processMessage from the outcome of the POST to its return
processMessageResume(conv, sessionId, ax) ==
    LET response == sendChatRequest(ax)
    IN  IF ~response.success
        THEN [conversations |-> conv, result |-> response]
        ELSE IF response.data = Null
        THEN [conversations |-> conv,
              result |-> [success |-> FALSE, error |-> <<"Failed to process chat message">>]]
        ELSE LET assistantMessage == firstChoiceMessage(response.data)
             IN  IF assistantMessage = Undefined
                 THEN [conversations |-> conv,
                       result |-> [success |-> FALSE,
                                   error |-> <<"Invalid response format from chat API">>]]
                 ELSE LET conv1 == addToConversation(conv, sessionId.str, assistantMessage)
                          conv2 == getConversationHistory(conv1, sessionId.str)
                      IN  [conversations |-> conv2,
                           result |-> [success |-> TRUE,
                                       message |-> Opt(assistantMessage, "content", Undefined),
                                       usage |-> Opt(response.data, "usage", Undefined),
                                       model |-> Opt(response.data, "model", Undefined),
                                       conversationLength |-> Len(conv2[sessionId.str])]]

-----------------------------------------------------------------------------
(* POST /message (routes/chat.js) *)

actualSessionId_AsSupplied(body, generated) == Opt(body, "sessionId", Undefined)

\* sessionId || `session_${Date.now()}_${...}`
actualSessionId(body, generated) ==
    IF Falsy(Opt(body, "sessionId", Undefined)) THEN Str(generated) ELSE body.sessionId

\* { context: context || 'travel', userInfo: userInfo || {} }
postMessageOptions(body) ==
    [context |-> IF Opt(body, "context", "") = "" THEN "travel" ELSE body.context,
     userInfo |-> IF Opt(body, "userInfo", Null) = Null THEN EmptyObject ELSE body.userInfo]

\* the answer of POST /message once its processMessage call has settled as
\* `settled`, and the Map the handler leaves
postMessageResponse(conv, sessionId, settled) ==
    IF settled.pc = "rejected"
    THEN [conversations |-> conv,
          status |-> 500,
          json |-> [success |-> FALSE,
                    error |-> <<"Internal server error processing chat message">>]]
    ELSE IF ~settled.result.success
    THEN [conversations |-> conv, status |-> 500, json |-> settled.result]
    ELSE [conversations |-> getConversationHistory(conv, sessionId.str),
          status |-> 200,
          json |-> [success |-> TRUE,
                    response |-> settled.result.message,
                    sessionId |-> sessionId,
                    usage |-> settled.result.usage,
                    model |-> settled.result.model,
                    conversationStats |-> getConversationStats(conv, sessionId.str)]]

-----------------------------------------------------------------------------
(* State machine *)

NoArgs == [userMessage |-> Undefined, sessionId |-> Undefined, options |-> Undefined]

\* the service as constructed, whatever the configured timeout is
InitService ==
    /\ maxHistoryMessages \in HistoryLimits
    /\ conversations = [k \in {} |-> <<>>]
    /\ pc = [c \in Callers |-> "idle"]
    /\ args = [c \in Callers |-> NoArgs]
    /\ requestPayload = [c \in Callers |-> Undefined]
    /\ posts = [c \in Callers |-> 0]
    /\ started = 0
    /\ returned = Undefined
    /\ served = Undefined
    /\ promptArgs = Undefined
    /\ systemMessage = Undefined
    /\ appended = [k \in SessionKeys |-> <<>>]
    /\ disturbed = [c \in Callers |-> FALSE]

\* the service with CHAT_API_TIMEOUT unset
Init == InitService /\ apiTimeout = 30000

\* the service with CHAT_API_TIMEOUT set or not
InitTimeout == InitService /\ apiTimeout \in ApiTimeouts

FreeSlot(c) == pc[c] = "idle" /\ \A d \in Callers : d < c => pc[d] # "idle"

\* callers other than c whose call in flight was made on session key k
OthersOn(c, k) == {d \in Callers \ {c} : args[d].sessionId = Str(k)}

\* a caller calls processMessage(userMessage, sessionId, options) and the
\* call settles before it reaches the POST
ProcessMessageSettle(c, userMessage, sessionId, options) ==
    LET e == processMessageEntry(conversations, userMessage, sessionId, options)
    IN  /\ FreeSlot(c)
        /\ e.pc # "awaiting"
        /\ conversations' = e.conversations
        /\ returned' = [kind |-> e.pc,
                        caller |-> c,
                        args |-> [userMessage |-> userMessage,
                                  sessionId |-> sessionId,
                                  options |-> options],
                        outcome |-> Undefined,
                        result |-> Opt(e, "result", Undefined),
                        posts |-> 0,
                        disturbed |-> FALSE]
        /\ served' = Undefined
        /\ UNCHANGED <<maxHistoryMessages, apiTimeout, pc, args, requestPayload, posts,
                       started, promptArgs, systemMessage, appended, disturbed>>

ProcessMessageSend_AliasedMessages(c, userMessage, sessionId, options) ==
    LET e == processMessageEntry(conversations, userMessage, sessionId, options)
        userMsg == [role |-> "user", content |-> trim(userMessage.str)]
    IN  /\ FreeSlot(c)
        /\ e.pc = "awaiting"
        /\ started < MaxCalls
        /\ started' = started + 1
        /\ pc' = [pc EXCEPT ![c] = "awaiting"]
        /\ args' = [args EXCEPT ![c] = [userMessage |-> userMessage,
                                        sessionId |-> sessionId,
                                        options |-> options]]
        /\ conversations' = e.conversations
        /\ requestPayload' =
                [d \in Callers |->
                    IF d = c THEN e.requestPayload
                    ELSE IF d \in OthersOn(c, sessionId.str)
                    THEN [requestPayload[d] EXCEPT !.messages = Append(@, userMsg)]
                    ELSE requestPayload[d]]
        /\ posts' = [posts EXCEPT ![c] = 1]
        /\ returned' = Undefined
        /\ appended' = [appended EXCEPT ![sessionId.str] = Append(@, userMsg)]
        /\ disturbed' = [d \in Callers |->
                            IF d = c THEN FALSE
                            ELSE IF d \in OthersOn(c, sessionId.str) THEN TRUE
                            ELSE disturbed[d]]
        /\ served' = Undefined
        /\ UNCHANGED <<maxHistoryMessages, apiTimeout, promptArgs, systemMessage>>

\* a caller calls processMessage(userMessage, sessionId, options) and the
\* call runs to the await of its POST
ProcessMessageSend(c, userMessage, sessionId, options) ==
    LET e == processMessageEntry(conversations, userMessage, sessionId, options)
    IN  /\ FreeSlot(c)
        /\ e.pc = "awaiting"
        /\ started < MaxCalls
        /\ started' = started + 1
        /\ pc' = [pc EXCEPT ![c] = "awaiting"]
        /\ args' = [args EXCEPT ![c] = [userMessage |-> userMessage,
                                        sessionId |-> sessionId,
                                        options |-> options]]
        /\ conversations' = e.conversations
        /\ requestPayload' = [requestPayload EXCEPT ![c] = e.requestPayload]
        /\ posts' = [posts EXCEPT ![c] = 1]
        /\ returned' = Undefined
        /\ appended' = [appended EXCEPT ![sessionId.str] =
                           Append(@, [role |-> "user", content |-> trim(userMessage.str)])]
        /\ disturbed' = [d \in Callers |->
                            IF d = c THEN FALSE
                            ELSE IF d \in OthersOn(c, sessionId.str) THEN TRUE
                            ELSE disturbed[d]]
        /\ served' = Undefined
        /\ UNCHANGED <<maxHistoryMessages, apiTimeout, promptArgs, systemMessage>>

Resume_NeedsEntry(c, ax) ==
    LET r == processMessageResume(conversations, args[c].sessionId, ax)
        k == args[c].sessionId.str
        stored == r.result.success
    IN  /\ pc[c] = "awaiting"
        /\ k \in DOMAIN conversations
        /\ pc' = [pc EXCEPT ![c] = "idle"]
        /\ args' = [args EXCEPT ![c] = NoArgs]
        /\ requestPayload' = [requestPayload EXCEPT ![c] = Undefined]
        /\ posts' = [posts EXCEPT ![c] = 0]
        /\ conversations' = r.conversations
        /\ returned' = [kind |-> "returned",
                        caller |-> c,
                        args |-> args[c],
                        outcome |-> ax,
                        result |-> r.result,
                        posts |-> posts[c],
                        disturbed |-> disturbed[c]]
        /\ appended' = IF stored
                       THEN [appended EXCEPT ![k] = Append(@, firstChoiceMessage(ax.data))]
                       ELSE appended
        /\ disturbed' = [d \in Callers |->
                            IF d = c THEN FALSE
                            ELSE IF stored /\ d \in OthersOn(c, k) THEN TRUE
                            ELSE disturbed[d]]
        /\ served' = Undefined
        /\ UNCHANGED <<maxHistoryMessages, apiTimeout, started, promptArgs, systemMessage>>

\* the POST of caller c settles with ax and the call runs to its return
Resume(c, ax) ==
    LET r == processMessageResume(conversations, args[c].sessionId, ax)
        k == args[c].sessionId.str
        stored == r.result.success
    IN  /\ pc[c] = "awaiting"
        /\ pc' = [pc EXCEPT ![c] = "idle"]
        /\ args' = [args EXCEPT ![c] = NoArgs]
        /\ requestPayload' = [requestPayload EXCEPT ![c] = Undefined]
        /\ posts' = [posts EXCEPT ![c] = 0]
        /\ conversations' = r.conversations
        /\ returned' = [kind |-> "returned",
                        caller |-> c,
                        args |-> args[c],
                        outcome |-> ax,
                        result |-> r.result,
                        posts |-> posts[c],
                        disturbed |-> disturbed[c]]
        /\ appended' = IF stored
                       THEN [appended EXCEPT ![k] = Append(@, firstChoiceMessage(ax.data))]
                       ELSE appended
        /\ disturbed' = [d \in Callers |->
                            IF d = c THEN FALSE
                            ELSE IF stored /\ d \in OthersOn(c, k) THEN TRUE
                            ELSE disturbed[d]]
        /\ served' = Undefined
        /\ UNCHANGED <<maxHistoryMessages, apiTimeout, started, promptArgs, systemMessage>>

\* DELETE /conversation/:sessionId
ClearConversation(k) ==
    /\ conversations' = clearConversation(conversations, k)
    /\ returned' = Undefined
    /\ appended' = [appended EXCEPT ![k] = <<>>]
    /\ disturbed' = [d \in Callers |->
                        IF args[d].sessionId = Str(k) THEN TRUE ELSE disturbed[d]]
    /\ served' = [op |-> "clear", sessionId |-> k, existed |-> k \in DOMAIN conversations]
    /\ UNCHANGED <<maxHistoryMessages, apiTimeout, pc, args, requestPayload, posts, started,
                   promptArgs, systemMessage>>

GetConversationHistory_FilterInPlace(k) ==
    /\ conversations' =
            [j \in DOMAIN conversations \cup {k} |->
                IF j = k
                THEN SelectSeq(History(k), LAMBDA m : Has(m, "role") /\ m.role = "user")
                ELSE conversations[j]]
    /\ returned' = Undefined
    /\ served' = [op |-> "get", sessionId |-> k, existed |-> k \in DOMAIN conversations,
                  history |-> getConversationHistory(conversations, k)[k],
                  stats |-> getConversationStats(conversations, k)]
    /\ UNCHANGED <<maxHistoryMessages, apiTimeout, pc, args, requestPayload, posts, started,
                   promptArgs, systemMessage, appended, disturbed>>

\* GET /conversation/:sessionId
GetConversationHistory(k) ==
    /\ conversations' = getConversationHistory(conversations, k)
    /\ returned' = Undefined
    /\ served' = [op |-> "get", sessionId |-> k, existed |-> k \in DOMAIN conversations,
                  history |-> getConversationHistory(conversations, k)[k],
                  stats |-> getConversationStats(conversations, k)]
    /\ UNCHANGED <<maxHistoryMessages, apiTimeout, pc, args, requestPayload, posts, started,
                   promptArgs, systemMessage, appended, disturbed>>

Next ==
    \/ \E c \in Callers, a \in CallArgs : ProcessMessageSettle(c, a[1], a[2], a[3])
    \/ \E c \in Callers, a \in CallArgs : ProcessMessageSend(c, a[1], a[2], a[3])
    \/ \E c \in Callers, ax \in AxiosOutcomes : Resume(c, ax)
    \/ \E k \in SessionKeys : ClearConversation(k)
    \/ \E k \in SessionKeys : GetConversationHistory(k)

Spec == Init /\ [][Next]_vars

\* axios settles every POST: with a response, or with an error, at the
\* latest when its timeout expires
Fairness == \A c \in Callers : WF_vars(\E ax \in AxiosOutcomes : Resume(c, ax))

\* two callers making valid calls, and clears
NextLive ==
    \/ \E c \in Callers, a \in ValidCallArgs : ProcessMessageSend(c, a[1], a[2], a[3])
    \/ \E c \in Callers, ax \in AxiosOutcomes : Resume(c, ax)
    \/ \E k \in SessionKeys : ClearConversation(k)

SpecLive == Init /\ [][NextLive]_vars /\ Fairness

NextBuilder ==
    \/ \E a \in BuilderCallArgs : ProcessMessageSend(1, a[1], a[2], a[3])
    \/ \E ax \in AxiosOutcomes : Resume(1, ax)
    \/ ClearConversation(S1)

\* one caller making one call after the other, over every options object
SpecBuilder == Init /\ [][NextBuilder]_vars

\* the same caller, for every configured timeout
SpecTimeout == InitTimeout /\ [][NextBuilder]_vars

\* buildSystemPrompt(context, userInfo) called on its own
BuildSystemPrompt(context, userInfo) ==
    /\ promptArgs' = [context |-> context, userInfo |-> userInfo]
    /\ systemMessage' = buildSystemPrompt(context, userInfo)
    /\ UNCHANGED <<maxHistoryMessages, apiTimeout, conversations, pc, args, requestPayload, posts,
                   started, returned, served, appended, disturbed>>

NextPrompt ==
    \E context \in Contexts, userInfo \in UserInfos : BuildSystemPrompt(context, userInfo)

\* the prompt composer alone, over every context tag and userInfo
SpecPrompt == Init /\ [][NextPrompt]_vars

\* POST /message with req.body = body is answered without a POST upstream:
\* 400 for a missing message, 500 when processMessage rejects or returns a
\* failure before its POST
PostMessageSettle(c, body, generated) ==
    LET message == Opt(body, "message", Undefined)
        sessionId == actualSessionId(body, generated)
        options == postMessageOptions(body)
        e == processMessageEntry(conversations, message, sessionId, options)
        res == postMessageResponse(e.conversations, sessionId, e)
    IN  /\ FreeSlot(c)
        /\ IF Falsy(message)
           THEN /\ served' = [op |-> "post", body |-> body, status |-> 400,
                              json |-> [success |-> FALSE,
                                        error |-> <<"Message is required">>]]
                /\ returned' = Undefined
                /\ UNCHANGED conversations
           ELSE /\ e.pc # "awaiting"
                /\ conversations' = res.conversations
                /\ returned' = [kind |-> e.pc,
                                caller |-> c,
                                args |-> [userMessage |-> message,
                                          sessionId |-> sessionId,
                                          options |-> options],
                                outcome |-> Undefined,
                                result |-> Opt(e, "result", Undefined),
                                posts |-> 0,
                                disturbed |-> FALSE]
                /\ served' = [op |-> "post", body |-> body, status |-> res.status,
                              json |-> res.json]
        /\ UNCHANGED <<maxHistoryMessages, apiTimeout, pc, args, requestPayload, posts,
                       started, promptArgs, systemMessage, appended, disturbed>>

\* POST /message with req.body = body runs to the await of the POST upstream
PostMessageSend(c, body, generated) ==
    LET message == Opt(body, "message", Undefined)
        sessionId == actualSessionId(body, generated)
        options == postMessageOptions(body)
        e == processMessageEntry(conversations, message, sessionId, options)
        k == sessionId.str
    IN  /\ FreeSlot(c)
        /\ ~Falsy(message)
        /\ e.pc = "awaiting"
        /\ started < MaxCalls
        /\ started' = started + 1
        /\ pc' = [pc EXCEPT ![c] = "awaiting"]
        /\ args' = [args EXCEPT ![c] = [userMessage |-> message,
                                        sessionId |-> sessionId,
                                        options |-> options,
                                        body |-> body]]
        /\ conversations' = e.conversations
        /\ requestPayload' = [requestPayload EXCEPT ![c] = e.requestPayload]
        /\ posts' = [posts EXCEPT ![c] = 1]
        /\ returned' = Undefined
        /\ appended' = [j \in DOMAIN appended \cup {k} |->
                           IF j = k
                           THEN Append(IF j \in DOMAIN appended THEN appended[j] ELSE <<>>,
                                       [role |-> "user", content |-> trim(message.str)])
                           ELSE appended[j]]
        /\ disturbed' = [d \in Callers |->
                            IF d = c THEN FALSE
                            ELSE IF d \in OthersOn(c, k) THEN TRUE
                            ELSE disturbed[d]]
        /\ served' = Undefined
        /\ UNCHANGED <<maxHistoryMessages, apiTimeout, promptArgs, systemMessage>>

\* the POST upstream of a POST /message request settles with ax: processMessage
\* runs to its return and the route answers
PostMessageRespond(c, ax) ==
    LET r == processMessageResume(conversations, args[c].sessionId, ax)
        k == args[c].sessionId.str
        stored == r.result.success
        res == postMessageResponse(r.conversations, args[c].sessionId,
                                   [pc |-> "returned", result |-> r.result])
    IN  /\ pc[c] = "awaiting"
        /\ Has(args[c], "body")
        /\ pc' = [pc EXCEPT ![c] = "idle"]
        /\ args' = [args EXCEPT ![c] = NoArgs]
        /\ requestPayload' = [requestPayload EXCEPT ![c] = Undefined]
        /\ posts' = [posts EXCEPT ![c] = 0]
        /\ conversations' = res.conversations
        /\ returned' = [kind |-> "returned",
                        caller |-> c,
                        args |-> args[c],
                        outcome |-> ax,
                        result |-> r.result,
                        posts |-> posts[c],
                        disturbed |-> disturbed[c]]
        /\ appended' = IF stored
                       THEN [appended EXCEPT ![k] = Append(@, firstChoiceMessage(ax.data))]
                       ELSE appended
        /\ disturbed' = [d \in Callers |->
                            IF d = c THEN FALSE
                            ELSE IF stored /\ d \in OthersOn(c, k) THEN TRUE
                            ELSE disturbed[d]]
        /\ served' = [op |-> "post", body |-> args[c].body, status |-> res.status,
                      json |-> res.json]
        /\ UNCHANGED <<maxHistoryMessages, apiTimeout, started, promptArgs, systemMessage>>

NextRoute ==
    \/ \E body \in RouteBodies, g \in GeneratedIds : PostMessageSettle(1, body, g)
    \/ \E body \in RouteBodies, g \in GeneratedIds : PostMessageSend(1, body, g)
    \/ \E ax \in AxiosOutcomes : PostMessageRespond(1, ax)

\* one client of POST /message making one request after the other, over every
\* request body
SpecRoute == Init /\ [][NextRoute]_vars

\* the 2xx response whose first choice is an assistant message
AssistantReply == [resolved |-> TRUE, data |-> Body(<<[message |-> WellFormedReply]>>)]

NextSequential ==
    \/ \E a \in ValidCallArgs : ProcessMessageSend(1, a[1], a[2], a[3])
    \/ Resume(1, AssistantReply)
    \/ \E k \in SessionKeys : ClearConversation(k)
    \/ \E k \in SessionKeys : GetConversationHistory(k)

\* one caller making one valid call after the other, each answered with an
\* assistant reply, while the sessions are read and cleared
SpecSequential == Init /\ [][NextSequential]_vars

-----------------------------------------------------------------------------
(* Properties *)

H == maxHistoryMessages

LastN(seq, n) == SubSeq(seq, Len(seq) - n + 1, Len(seq))

IsSystem(m) == Has(m, "role") /\ m.role = "system"

\* a processMessage call settled in the last step by returning a result
Returned == returned.kind = "returned"

\* the session key, the trimmed user message and the upstream reply of the
\* call that settled in the last step
RetKey == returned.args.sessionId.str
RetUserMsg == [role |-> "user", content |-> trim(returned.args.userMessage.str)]
RetReply == returned.outcome.data.choices[1].message

\* the message argument is missing, empty or whitespace-only
Blank(v) ==
    \/ v = Undefined
    \/ v.kind = "string" /\ \A i \in 1..Len(v.str) : v.str[i] \in Whitespace

NonBlankText(v) == v.kind = "string" /\ ~Blank(v)

\* the POST of the settled call failed without a response (transport) or
\* with a non-2xx response (upstream protocol)
GatewayFailed ==
    /\ Returned
    /\ returned.outcome # Undefined
    /\ ~returned.outcome.resolved
    /\ Has(returned.outcome.error, "response") \/ Has(returned.outcome.error, "request")

\* the POST of the settled call got a 2xx response
GatewaySucceeded ==
    /\ Returned
    /\ returned.outcome # Undefined
    /\ returned.outcome.resolved

\* the 2xx response of the settled call carries a first-choice message
HasReply ==
    /\ GatewaySucceeded
    /\ returned.outcome.data # Null
    /\ Has(returned.outcome.data, "choices")
    /\ Len(returned.outcome.data.choices) > 0
    /\ Has(returned.outcome.data.choices[1], "message")

\* C1: in every reachable state the stored history of every session has at
\* most maxHistoryMessages entries
C1_HistoryBound ==
    \A k \in DOMAIN conversations :
        Len(conversations[k]) >= 0 /\ Len(conversations[k]) <= H

\* a session is full after more than H appends
C1_Witness ==
    \E k \in DOMAIN conversations :
        Len(conversations[k]) = H /\ Len(appended[k]) > H

\* C2: the stored history of a session is the last min(n, H) of the n
\* messages appended to it since its last clear, in append order
C2_MostRecentInOrder ==
    \A k \in SessionKeys :
        History(k) = LastN(appended[k], Min(Len(appended[k]), H))

\* two messages were evicted and two different ones are retained
C2_Witness ==
    \E k \in SessionKeys :
        /\ H = 2
        /\ Len(appended[k]) = 4
        /\ History(k)[1] # History(k)[2]
        /\ appended[k][1] # appended[k][3]

\* C3 as stated: after a call that failed with a transport or upstream
\* protocol error, the last entry of the session's history is the call's
\* trimmed user message
C3_Original ==
    GatewayFailed =>
        /\ History(RetKey) # <<>>
        /\ History(RetKey)[Len(History(RetKey))] = RetUserMsg

\* C3 amended: the same, for a call during which no other call appended to
\* the session and the session was not cleared
C3_UserTurnPersisted ==
    (GatewayFailed /\ ~returned.disturbed) =>
        /\ History(RetKey) # <<>>
        /\ History(RetKey)[Len(History(RetKey))] = RetUserMsg

\* an undisturbed call with surrounding whitespace in its text failed at the
\* gateway, on a session that already had history
C3_Witness ==
    /\ GatewayFailed
    /\ ~returned.disturbed
    /\ returned.args.userMessage = Bye
    /\ Len(appended[RetKey]) >= 2

\* C4: a call with missing, empty or whitespace-only text returns the
\* empty-message failure, leaves the session store as it was and posts nothing
C4_EmptyTextNoEffect ==
    [][(returned'.kind # "undefined" /\ Blank(returned'.args.userMessage)) =>
            /\ returned'.kind = "returned"
            /\ returned'.result = [success |-> FALSE, error |-> <<"Message cannot be empty">>]
            /\ returned'.posts = 0
            /\ conversations' = conversations
            /\ posts' = posts]_vars

\* a whitespace-only call on a session that has no entry returned, with
\* another session holding history
C4_Witness ==
    /\ Returned
    /\ returned.args.userMessage = Str(<<" ", "\t">>)
    /\ returned.args.sessionId = Str(S1)
    /\ S1 \notin DOMAIN conversations
    /\ History(S2) # <<>>

\* C5: a call with non-blank text and a missing or empty session id returns
\* the session-id failure, leaves the session store as it was and posts
\* nothing
C5_MissingSessionNoEffect ==
    [][(/\ returned'.kind # "undefined"
        /\ NonBlankText(returned'.args.userMessage)
        /\ returned'.args.sessionId \in {Undefined, Str(<<>>)}) =>
            /\ returned'.kind = "returned"
            /\ returned'.result = [success |-> FALSE, error |-> <<"Session ID is required">>]
            /\ returned'.posts = 0
            /\ conversations' = conversations
            /\ posts' = posts]_vars

\* a call with text and an empty session id returned while the store holds
\* a session
C5_Witness ==
    /\ Returned
    /\ returned.args.userMessage = Bye
    /\ returned.args.sessionId = Str(<<>>)
    /\ DOMAIN conversations = {S1}
    /\ History(S1) # <<>>

\* C6 as stated: no stored history contains a message of role system
C6_NoSystemInHistory ==
    \A k \in DOMAIN conversations :
        \A i \in 1..Len(conversations[k]) : ~IsSystem(conversations[k][i])

\* C7: with includeHistory true the messages of a built request are the
\* system message, then the history stored before the call, then the new
\* user message; it has at most H + 1 non-system messages
C7_RequestOrder ==
    [][\A c \in Callers :
        (/\ pc[c] = "idle"
         /\ pc'[c] = "awaiting"
         /\ args'[c].options # [includeHistory |-> FALSE]) =>
            LET messages == requestPayload'[c].messages
                k == args'[c].sessionId.str
                before == IF k \in DOMAIN conversations THEN conversations[k] ELSE <<>>
            IN  /\ IsSystem(messages[1])
                /\ Tail(messages) =
                        Append(before, [role |-> "user",
                                        content |-> trim(args'[c].userMessage.str)])
                /\ Len(messages) - 1 <= H + 1]_vars

\* a request in flight carries H + 1 non-system messages
C7_Witness ==
    \E c \in Callers :
        /\ pc[c] = "awaiting"
        /\ args[c].options = Undefined
        /\ H = 2
        /\ Len(requestPayload[c].messages) = H + 2
        /\ Len(History(args[c].sessionId.str)) = H

C9_MalformedReplyFails ==
    (/\ GatewaySucceeded
     /\ ~(HasReply /\ Has(RetReply, "role") /\ Has(RetReply, "content"))) =>
        returned.result.success = FALSE

\* C10 as stated: no processMessage call settles by rejecting
C10_NoUncaughtFault ==
    returned.kind # "rejected"

\* the arguments of the settled call pass both validation checks
RetValidated ==
    /\ NonBlankText(returned.args.userMessage)
    /\ ~Falsy(returned.args.sessionId)

\* C11 as stated: a call that passes validation issues exactly one POST and
\* a call that fails validation issues none
C11_Original ==
    Returned => returned.posts = IF RetValidated THEN 1 ELSE 0

\* C11 amended: a call issues exactly one POST when it passes validation and
\* its request is built (its options are not null), whatever the POST's
\* outcome, and none otherwise; a call in flight has issued exactly one
C11_OnePostPerBuiltRequest ==
    /\ \A c \in Callers : posts[c] = IF pc[c] = "awaiting" THEN 1 ELSE 0
    /\ returned.kind = "rejected" => returned.posts = 0
    /\ Returned =>
            /\ returned.posts =
                    IF RetValidated /\ returned.args.options # Null THEN 1 ELSE 0
            /\ returned.outcome # Undefined <=> returned.posts = 1

\* a call whose POST failed returned having issued one POST
C11_Witness ==
    /\ GatewayFailed
    /\ returned.posts = 1
    /\ returned.result.success = FALSE

\* the user message of the call in flight of caller c
UserMsgOfCall(c) == [role |-> "user", content |-> trim(args[c].userMessage.str)]

\* the stored history the request of caller c was built from
Observed(payload) == SubSeq(payload.messages, 2, Len(payload.messages) - 1)

\* caller d starts, in this step, a call that reads the history of the
\* session on which the call of caller c is in flight with nothing else
\* having touched that session since the call of c began
StartsBeside(d, c) ==
    /\ c # d
    /\ pc[d] = "idle"
    /\ pc'[d] = "awaiting"
    /\ pc[c] = "awaiting"
    /\ args'[d].sessionId = args[c].sessionId
    /\ args[c].options = Undefined
    /\ args'[d].options = Undefined
    /\ ~disturbed[c]

\* C12 as stated: the second of two concurrent calls on a session builds its
\* request from the same stored history as the first, the first call's
\* user-message append not being visible to it
C12_Original ==
    [][\A c, d \in Callers :
        StartsBeside(d, c) =>
            Observed(requestPayload'[d]) = Observed(requestPayload[c])]_vars

\* C12 amended: the history read and the append of a call are one step, so
\* the second of two concurrent calls on a session always sees the first
\* call's user message: it is the last entry of the history its request is
\* built from
C12_SecondCallSeesFirstAppend ==
    [][\A c, d \in Callers :
        StartsBeside(d, c) =>
            LET seen == Observed(requestPayload'[d])
            IN  /\ seen # <<>>
                /\ seen[Len(seen)] = UserMsgOfCall(c)
                /\ requestPayload'[c] = requestPayload[c]]_vars

\* two calls with different texts are in flight on one session: the first
\* request has no history, the second has the first call's user message
C12_Witness ==
    \E c, d \in Callers :
        /\ c # d
        /\ pc[c] = "awaiting" /\ pc[d] = "awaiting"
        /\ args[c] = [userMessage |-> Hi, sessionId |-> Str(S1), options |-> Undefined]
        /\ args[d] = [userMessage |-> Bye, sessionId |-> Str(S1), options |-> Undefined]
        /\ Observed(requestPayload[c]) = <<>>
        /\ Observed(requestPayload[d]) = <<UserMsgOfCall(c)>>
        /\ History(S1) = IF H = 1 THEN <<UserMsgOfCall(d)>>
                         ELSE <<UserMsgOfCall(c), UserMsgOfCall(d)>>

\* C13: replies are stored in completion order, not paired with their user
\* turns: right after a successful call returns, its reply is the last stored
\* entry of its session, wherever the call's user message is
C13_RepliesInCompletionOrder ==
    (Returned /\ returned.result.success) =>
        /\ History(RetKey) # <<>>
        /\ History(RetKey)[Len(History(RetKey))] = RetReply
        /\ appended[RetKey][Len(appended[RetKey])] = RetReply

\* [user1, user2, assistant2, assistant1]: "hi" started first and returned
\* last, after "bye" started and returned; the two user turns are
\* consecutive and the last entry is the reply to the first
C13_Witness ==
    /\ H = 4
    /\ Returned
    /\ returned.result.success
    /\ returned.args.userMessage = Hi
    /\ returned.disturbed
    /\ \A c \in Callers : pc[c] = "idle"
    /\ appended[S1] = History(S1)
    /\ History(S1) = <<[role |-> "user", content |-> <<"h", "i">>],
                       [role |-> "user", content |-> <<"b", "y", "e">>],
                       WellFormedReply, RetReply>>

\* session key B has the same entry, or no entry, before and after the step
SameEntry(B) ==
    /\ B \in DOMAIN conversations' <=> B \in DOMAIN conversations
    /\ B \in DOMAIN conversations => conversations'[B] = conversations[B]

\* C14: a step of a processMessage call on session A (its start or its
\* return, whatever the POST settled with) leaves the stored history of every
\* other session, the request of every other call in flight, and what a call
\* in flight on another session will return for each outcome, as they were;
\* a call that settles before the POST changes nothing at all
C14_OtherSessionsUntouched ==
    [][/\ \A c \in Callers :
            pc'[c] # pc[c] =>
                LET A == IF pc[c] = "idle" THEN args'[c].sessionId ELSE args[c].sessionId
                IN  /\ \A B \in SessionKeys \ {A.str} : SameEntry(B)
                    /\ \A d \in Callers \ {c} :
                            /\ pc'[d] = pc[d]
                            /\ args'[d] = args[d]
                            /\ requestPayload'[d] = requestPayload[d]
                            /\ posts'[d] = posts[d]
                            /\ (pc[d] = "awaiting" /\ args[d].sessionId # A) =>
                                    \A ax \in AxiosOutcomes :
                                        processMessageResume(conversations', args[d].sessionId, ax).result
                                          = processMessageResume(conversations, args[d].sessionId, ax).result
       /\ (returned'.kind # "undefined" /\ pc' = pc) =>
                /\ conversations' = conversations
                /\ requestPayload' = requestPayload]_vars

\* a call on s1 came back from its POST while a call is in flight on s2 and
\* both sessions hold history
C14_Witness ==
    /\ Returned
    /\ returned.outcome # Undefined
    /\ RetKey = S1
    /\ History(S1) # <<>>
    /\ History(S2) # <<>>
    /\ \E d \in Callers : pc[d] = "awaiting" /\ args[d].sessionId = Str(S2)

\* the last step served clearConversation(k)
Cleared(k) == Has(served, "op") /\ served.op = "clear" /\ served.sessionId = k

\* C15: clearConversation(k) can always be called; after it getHistory(k) is
\* empty, every other session is as it was, a session that did not exist
\* leaves the store unchanged, and a second clear changes nothing more
C15_ClearIdempotent ==
    [][\A k \in SessionKeys :
        Cleared(k)' =>
            /\ getConversationHistory(conversations', k)[k] = <<>>
            /\ \A B \in SessionKeys \ {k} : SameEntry(B)
            /\ k \notin DOMAIN conversations => conversations' = conversations
            /\ clearConversation(conversations', k) = conversations'
            /\ clearConversation(clearConversation(conversations, k), k)
                    = clearConversation(conversations, k)
            /\ ENABLED ClearConversation(k)]_vars

\* s1, which has no entry, was cleared while s2 holds history
C15_Witness ==
    /\ Cleared(S1)
    /\ ~served.existed
    /\ S1 \notin DOMAIN conversations
    /\ History(S2) # <<>>

WellFormed == HasReply /\ Has(RetReply, "role") /\ Has(RetReply, "content")

\* C17: a call whose POST got a well-formed reply returns success with the
\* reply's content, the response's usage and model, and the length of the
\* session's stored history, whose last entry is then the reply
C17_SuccessResult ==
    WellFormed =>
        /\ returned.result =
                [success |-> TRUE,
                 message |-> RetReply.content,
                 usage |-> returned.outcome.data.usage,
                 model |-> returned.outcome.data.model,
                 conversationLength |-> Len(History(RetKey))]
        /\ returned.result.conversationLength = Min(Len(appended[RetKey]), H)
        /\ History(RetKey)[Len(History(RetKey))] = RetReply

\* the reply was appended to a full history: the returned length is H = 2
\* after four appends
C17_Witness ==
    /\ WellFormed
    /\ H = 2
    /\ Len(appended[RetKey]) = 4
    /\ returned.result.conversationLength = 2
    /\ returned.result.message = <<"h", "e", "l", "l", "o">>
    /\ returned.result.model = "gpt-3.5-turbo-0125"

\* the POST of the settled call was rejected
PostRejected ==
    /\ Returned
    /\ returned.outcome # Undefined
    /\ ~returned.outcome.resolved

TransportFailure ==
    [success |-> FALSE, error |-> <<"Network error: Unable to reach chat API service">>]

ProtocolFailure(response) ==
    [success |-> FALSE,
     error |-> <<"API Error: ", response.status, " - ", response.statusText>>,
     details |-> response.data]

\* C18 as stated: a failed upstream call returns the upstream-protocol
\* failure, with status and body, when a response was received, and the
\* transport failure when none was
C18_Original ==
    PostRejected =>
        returned.result =
            IF Has(returned.outcome.error, "response")
            THEN ProtocolFailure(returned.outcome.error.response)
            ELSE TransportFailure

\* C18 amended: a failed upstream call returns the upstream-protocol failure
\* when a response was received, the transport failure when a request was
\* sent and no response received, and the request failure, with the error's
\* message, when the error carries neither
C18_ThreeFailureClasses ==
    PostRejected =>
        returned.result =
            IF Has(returned.outcome.error, "response")
            THEN ProtocolFailure(returned.outcome.error.response)
            ELSE IF Has(returned.outcome.error, "request")
            THEN TransportFailure
            ELSE [success |-> FALSE,
                  error |-> <<"Request error: ", returned.outcome.error.message>>]

\* a call returned the request failure: its POST was rejected before any
\* request was sent
C18_Witness ==
    /\ PostRejected
    /\ ~Has(returned.outcome.error, "response")
    /\ ~Has(returned.outcome.error, "request")
    /\ returned.result = [success |-> FALSE, error |-> <<"Request error: ", "Invalid URL">>]

\* C19: in the step in which a call issues its POST the user message is
\* already the last stored entry of its session, and the step in which the
\* call returns a failure, of any kind, leaves the whole store as it was
C19_AppendBeforePostNoRollback ==
    [][\A c \in Callers :
        /\ (pc[c] = "idle" /\ pc'[c] = "awaiting") =>
                LET stored == conversations'[args'[c].sessionId.str]
                IN  /\ posts[c] = 0
                    /\ posts'[c] = 1
                    /\ stored # <<>>
                    /\ stored[Len(stored)] =
                            [role |-> "user", content |-> trim(args'[c].userMessage.str)]
        /\ (pc[c] = "awaiting" /\ pc'[c] = "idle" /\ ~returned'.result.success) =>
                /\ returned'.posts = 1
                /\ conversations' = conversations]_vars

\* a call whose 2xx response had no choices returned a failure and its user
\* message is still the last stored entry, after an earlier turn
C19_Witness ==
    /\ GatewaySucceeded
    /\ returned.result = [success |-> FALSE,
                          error |-> <<"Invalid response format from chat API">>]
    /\ ~returned.disturbed
    /\ Len(appended[RetKey]) >= 2
    /\ History(RetKey)[Len(History(RetKey))] = RetUserMsg

\* the tags that name a template
KnownContexts == {"travel", "booking", "support", "general"}

Template(context) ==
    IF context \in KnownContexts THEN systemPrompts[context] ELSE systemPrompts.general

\* attribute f of userInfo is present and non-empty
Given(userInfo, f) == Has(userInfo, f) /\ userInfo[f] # ""

\* the personalization clauses of a userInfo, in their order
Clauses(userInfo) ==
    (IF Given(userInfo, "name")
     THEN <<"\n\nThe customer's name is ", userInfo.name, ".">> ELSE <<>>)
    \o (IF Given(userInfo, "location")
        THEN <<"\nThe customer is located in ", userInfo.location, ".">> ELSE <<>>)
    \o (IF Given(userInfo, "preferredLanguage") /\ userInfo.preferredLanguage # "en"
        THEN <<"\nPlease respond in ", userInfo.preferredLanguage,
               " if the customer writes in that language.">> ELSE <<>>)

\* C21 as stated: the composed message has role system and its content is
\* the template content followed by the name clause, the location clause and
\* the language instruction, each only for an attribute that is present and
\* non-empty, the last only for a language other than en, and nothing else
C21_PromptComposition ==
    promptArgs # Undefined =>
        systemMessage =
            [role |-> "system",
             content |-> <<Template(promptArgs.context).content>>
                            \o Clauses(promptArgs.userInfo)]

\* caller c starts a call in this step
Starts(c) == pc[c] = "idle" /\ pc'[c] = "awaiting"

C23_ConfiguredTimeout ==
    \A c \in Callers : pc[c] = "awaiting" => axiosTimeout = apiTimeout

\* the last step served GET /conversation/k
Got(k) == Has(served, "op") /\ served.op = "get" /\ served.sessionId = k

\* C24: getConversationHistory(k) can always be called; it returns the
\* stored sequence of k, the empty sequence when k has no entry, and leaves
\* the store as it was but for an empty entry created for an absent k
C24_GetHistoryTotal ==
    [][\A k \in SessionKeys :
        Got(k)' =>
            /\ served'.history = History(k)
            /\ k \in DOMAIN conversations'
            /\ conversations'[k] = served'.history
            /\ \A B \in SessionKeys \ {k} : SameEntry(B)
            /\ k \notin DOMAIN conversations => served'.history = <<>>
            /\ ENABLED GetConversationHistory(k)]_vars

\* the history of s1 was read right after s1 was cleared under a call in
\* flight: the empty sequence was returned and an empty entry created
C24_Witness ==
    /\ Got(S1)
    /\ ~served.existed
    /\ served.history = <<>>
    /\ conversations[S1] = <<>>
    /\ \E d \in Callers :
            pc[d] = "awaiting" /\ args[d].sessionId = Str(S1) /\ disturbed[d]

\* the number of stored messages of session k whose role is r
StoredWithRole(k, r) ==
    Cardinality({i \in 1..Len(History(k)) :
                    Has(History(k)[i], "role") /\ History(k)[i].role = r})

\* the stats the claim gives session k
StatsOf(k) ==
    [totalMessages |-> Len(History(k)),
     userMessages |-> StoredWithRole(k, "user"),
     assistantMessages |-> StoredWithRole(k, "assistant"),
     sessionId |-> k]

\* C25: in every reachable state getConversationStats(k) is the stored
\* length of k and its numbers of user and of assistant messages, all zero
\* for an absent session, and that is what a served read returned
C25_StatsCounts ==
    \A k \in SessionKeys :
        /\ getConversationStats(conversations, k) = StatsOf(k)
        /\ k \notin DOMAIN conversations =>
                getConversationStats(conversations, k) =
                    [totalMessages |-> 0, userMessages |-> 0,
                     assistantMessages |-> 0, sessionId |-> k]
        /\ Got(k) => served.stats = StatsOf(k)

\* the stats of s1 were read with two user messages and one reply stored
C25_Witness ==
    /\ Got(S1)
    /\ served.stats = [totalMessages |-> 3, userMessages |-> 2,
                       assistantMessages |-> 1, sessionId |-> S1]
    /\ Len(History(S1)) = 3

\* C26: every call in flight eventually returns a result, whatever the other
\* caller and the sessions do
C26_EveryCallReturns ==
    \A c \in Callers :
        (pc[c] = "awaiting") ~> (Returned /\ returned.caller = c /\ pc[c] = "idle")

\* a call returned the transport failure of a timeout while another call is
\* still in flight on the same session
C26_Witness ==
    /\ PostRejected
    /\ returned.outcome.error.message = "timeout of 30000ms exceeded"
    /\ returned.result = TransportFailure
    /\ \E d \in Callers :
            /\ d # returned.caller
            /\ pc[d] = "awaiting"
            /\ args[d].sessionId = returned.args.sessionId

\* C27: in every step other than a clear of k, an entry k stays in the
\* store and a non-empty history of k stays non-empty; its messages are kept
\* in order, and one is removed, from the front, only when an append finds
\* the history already holding H messages
C27_OnlyClearRemoves ==
    [][\A k \in DOMAIN conversations :
        ~Cleared(k)' =>
            /\ k \in DOMAIN conversations'
            /\ conversations[k] # <<>> => conversations'[k] # <<>>
            /\ \/ conversations'[k] = conversations[k]
               \/ /\ Len(conversations[k]) < H
                  /\ Len(conversations'[k]) = Len(conversations[k]) + 1
                  /\ SubSeq(conversations'[k], 1, Len(conversations[k])) = conversations[k]
               \/ /\ Len(conversations[k]) = H
                  /\ Len(conversations'[k]) = H
                  /\ SubSeq(conversations'[k], 1, H - 1) = Tail(conversations[k])]_vars

\* a call failed at the gateway on a session whose history has already
\* evicted messages: the entry and its H messages are still there
C27_Witness ==
    /\ PostRejected
    /\ RetKey \in DOMAIN conversations
    /\ Len(conversations[RetKey]) = H
    /\ Len(appended[RetKey]) > H

\* C28: a call with a blank text and a missing or empty session id returns
\* the empty-message failure, and a call that returns the session-id failure
\* had a non-blank text
C28_TextCheckedFirst ==
    /\ (/\ returned.kind # "undefined"
        /\ Blank(returned.args.userMessage)
        /\ Falsy(returned.args.sessionId)) =>
            /\ Returned
            /\ returned.result = [success |-> FALSE, error |-> <<"Message cannot be empty">>]
    /\ (/\ Returned
        /\ returned.result = [success |-> FALSE, error |-> <<"Session ID is required">>]) =>
            /\ NonBlankText(returned.args.userMessage)
            /\ Falsy(returned.args.sessionId)

\* a call with a whitespace-only text and no session id returned the
\* empty-message failure
C28_Witness ==
    /\ Returned
    /\ returned.args.userMessage = Str(<<" ", "\n">>)
    /\ returned.args.sessionId = Undefined
    /\ returned.result = [success |-> FALSE, error |-> <<"Message cannot be empty">>]

\* the options of a call say includeHistory: false
WithoutHistory(o) == Has(o, "includeHistory") /\ o.includeHistory = FALSE

\* seq with message m appended and then cut to its last H
Pushed(seq, m) == LastN(Append(seq, m), Min(Len(seq) + 1, H))

\* C29: a call with includeHistory false builds [system, newUser] whatever
\* is stored, and it stores its user message, and on success its reply, as
\* any call does: appended to the stored history and cut to the last H
C29_WithoutHistory ==
    [][\A c \in Callers :
        /\ (Starts(c) /\ WithoutHistory(args'[c].options)) =>
                LET k == args'[c].sessionId.str
                    newUser == [role |-> "user",
                                content |-> trim(args'[c].userMessage.str)]
                    messages == requestPayload'[c].messages
                IN  /\ Len(messages) = 2
                    /\ IsSystem(messages[1])
                    /\ messages[2] = newUser
                    /\ conversations'[k] = Pushed(History(k), newUser)
        /\ (/\ pc[c] = "awaiting"
            /\ pc'[c] = "idle"
            /\ WithoutHistory(args[c].options)
            /\ returned'.result.success) =>
                LET k == args[c].sessionId.str
                IN  conversations'[k] =
                        Pushed(History(k), returned'.outcome.data.choices[1].message)]_vars

\* a request without history is in flight on a session that holds an earlier
\* turn and this call's user message
C29_Witness ==
    /\ pc[1] = "awaiting"
    /\ WithoutHistory(args[1].options)
    /\ Len(requestPayload[1].messages) = 2
    /\ H = 4
    /\ Len(History(S1)) = 3
    /\ History(S1)[3] = UserMsgOfCall(1)

\* the untrimmed copies of the texts of the calls
UntrimmedCopies ==
    { [role |-> "user", content |-> a[1].str] :
        a \in {b \in ValidCallArgs : b[1].str # trim(b[1].str)} }

\* no stored message and no message of a request in flight is the untrimmed
\* copy of a call's text
NoUntrimmedCopy ==
    /\ \A k \in DOMAIN conversations :
            \A i \in 1..Len(conversations[k]) : conversations[k][i] \notin UntrimmedCopies
    /\ \A c \in Callers :
            pc[c] = "awaiting" =>
                \A i \in 1..Len(requestPayload[c].messages) :
                    requestPayload[c].messages[i] \notin UntrimmedCopies

\* C30: the last message of the request of a call in flight is role user
\* with the input text trimmed, and so is the last stored message of its
\* session until another operation touches the session; no untrimmed copy
\* of a call's text is ever stored or sent
C30_SameTrimmedMessage ==
    /\ \A c \in Callers :
            pc[c] = "awaiting" =>
                LET messages == requestPayload[c].messages
                    stored == History(args[c].sessionId.str)
                IN  /\ messages[Len(messages)] = UserMsgOfCall(c)
                    /\ ~disturbed[c] =>
                            /\ stored # <<>>
                            /\ stored[Len(stored)] = UserMsgOfCall(c)
    /\ NoUntrimmedCopy

\* the call " bye\n" is in flight: "bye" is last in its request and last in
\* the stored history, after an earlier turn
C30_Witness ==
    \E c \in Callers :
        /\ pc[c] = "awaiting"
        /\ args[c].userMessage = Bye
        /\ args[c].options = Undefined
        /\ Len(requestPayload[c].messages) >= 3
        /\ requestPayload[c].messages[Len(requestPayload[c].messages)]
                = [role |-> "user", content |-> <<"b", "y", "e">>]
        /\ History(S1)[Len(History(S1))] = [role |-> "user", content |-> <<"b", "y", "e">>]

\* the last step answered a POST /message request
Posted == Has(served, "op") /\ served.op = "post"

\* the sessionId field of the body of the request answered in the last step
Supplied == Opt(served.body, "sessionId", Undefined)

\* the answer carries the session-id failure of processMessage
SessionIdFailure ==
    Has(served.json, "error") /\ served.json.error = <<"Session ID is required">>

\* the request answered in the last step was processed under session id v:
\* its processMessage call was made with v, and the stats of the answer are
\* those of the stored history of v, which ends with the reply
ProcessedUnder(v) ==
    /\ Returned
    /\ returned.args.sessionId = v
    /\ served.json.conversationStats = StatsOf(v.str)
    /\ History(v.str) # <<>>
    /\ History(v.str)[Len(History(v.str))] = RetReply

C32_RequestIsSnapshot ==
    [][\A c \in Callers :
        /\ (pc[c] = "awaiting" /\ pc'[c] = "awaiting") =>
                requestPayload'[c] = requestPayload[c]
        /\ Starts(c) =>
                /\ Observed(requestPayload'[c]) =
                        IF WithoutHistory(args'[c].options)
                        THEN <<>>
                        ELSE History(args'[c].sessionId.str)
                /\ IsSystem(requestPayload'[c].messages[1])]_vars

\* two calls are in flight on s1 and s1 was just cleared: the request of the
\* second still holds the user message of the first and its own
C32_Witness ==
    \E c \in Callers :
        /\ pc[c] = "awaiting"
        /\ args[c].sessionId = Str(S1)
        /\ disturbed[c]
        /\ Len(requestPayload[c].messages) = 3
        /\ requestPayload[c].messages[3] = UserMsgOfCall(c)
        /\ S1 \notin DOMAIN conversations
        /\ Cleared(S1)
        /\ \E d \in Callers \ {c} :
                /\ pc[d] = "awaiting"
                /\ requestPayload[c].messages[2] = UserMsgOfCall(d)

\* seq is user, assistant, user, assistant, ... and ends with an assistant
\* message
Alternates(seq) ==
    /\ Len(seq) % 2 = 0
    /\ \A i \in 1..Len(seq) :
            /\ Has(seq[i], "role")
            /\ seq[i].role = IF i % 2 = 1 THEN "user" ELSE "assistant"

\* C33 as stated: with H even and every call sequential and answered with an
\* assistant reply, the stored history of every session alternates user,
\* assistant between calls, and every request in flight has a user message
\* right after the system message
C33_AlternatingHistory ==
    H % 2 = 0 =>
        /\ (\A c \in Callers : pc[c] = "idle") =>
                \A k \in DOMAIN conversations : Alternates(conversations[k])
        /\ \A c \in Callers :
                pc[c] = "awaiting" =>
                    /\ IsSystem(requestPayload[c].messages[1])
                    /\ requestPayload[c].messages[2].role = "user"

\* C34 as stated: the first message appended to a session since its last
\* clear is the user message of a call begun after that clear, never the
\* reply of a call begun before it, so the history of a cleared session does
\* not restart with a reply
C34_NoStaleReply ==
    \A k \in SessionKeys :
        appended[k] # <<>> =>
            /\ Has(appended[k][1], "content")
            /\ \E a \in CallArgs :
                    /\ NonBlankText(a[1])
                    /\ appended[k][1] = [role |-> "user", content |-> trim(a[1].str)]

\* C35 as stated: in every reachable state the stats of every session have
\* totalMessages = userMessages + assistantMessages, every stored message
\* being of role user or assistant
C35_StatsPartition ==
    \A k \in SessionKeys :
        LET stats == getConversationStats(conversations, k)
        IN  /\ stats.totalMessages = stats.userMessages + stats.assistantMessages
            /\ \A i \in 1..Len(History(k)) :
                    /\ Has(History(k)[i], "role")
                    /\ History(k)[i].role \in {"user", "assistant"}

\* C36: a read of session k, its history and its stats, leaves the messages
\* of every stored session as they were; the store gains at most the entry
\* k, empty, when k was absent
C36_ReadsKeepMessages ==
    [][\A k \in SessionKeys :
        Got(k)' =>
            /\ \A j \in DOMAIN conversations :
                    j \in DOMAIN conversations' /\ conversations'[j] = conversations[j]
            /\ DOMAIN conversations' = DOMAIN conversations \cup {k}
            /\ k \notin DOMAIN conversations => conversations'[k] = <<>>
            /\ served'.stats.totalMessages = Len(History(k))]_vars

\* s2, which has no entry, was read while s1 holds a turn: s2 now has an
\* empty entry and s1 its two messages
C36_Witness ==
    /\ Got(S2)
    /\ ~served.existed
    /\ S2 \in DOMAIN conversations
    /\ conversations[S2] = <<>>
    /\ served.stats.totalMessages = 0
    /\ Len(History(S1)) = 2
    /\ History(S1)[2] = WellFormedReply

====
